---- MODULE Spec2Model ----
(***************************************************************************)
(* DispersionCalculator (src/dispersion_calc.py): a Gaussian pulse, its    *)
(* propagation through catalog materials by spectral filtering, and the    *)
(* analysers reading the propagated field.                                 *)
(*                                                                         *)
(* Number model.  Field samples are complex numbers.  They are kept exact  *)
(* as elements of the ring Z[z], z = exp(i*pi/6), written <<a, b, c, d>>   *)
(* for a + b z + c z^2 + d z^3 (z^4 = z^2 - 1).  The ring holds the N-th   *)
(* roots of unity for every N dividing 12, so the discrete Fourier         *)
(* transform of N samples is computed exactly; transfer-function phases    *)
(* are multiples of 30 degrees.  |x|^2 lies in Z[sqrt 3] and is written    *)
(* <<p, q>> for p + q sqrt 3.  NaN is the value numpy calls nan.           *)
(*                                                                         *)
(* Builds.  The code runs under Python 2 or Python 3 with a numpy that     *)
(* still has np.int; where the two differ (the division of lines 260 and   *)
(* 275, np.roll with a float shift) each analyser call picks a build.      *)
(***************************************************************************)
EXTENDS Integers, Sequences, FiniteSets

\* ------------------------------------------------------------------ bounds
\* Largest sample count n passed to generate_pulse.
MaxN == 4
\* Most propagate_material calls explored after a generate_pulse or a
\* reset_propagation.
MaxHops == 2

\* ------------------------------------------------------------- arithmetic
\* Number of phase steps of a full turn: z has order 12.
PhaseSteps == 12
\* The amplitude 1.0 of the generated envelope, in model units.
FieldOne == 24

NaN == <<>>
Zero == <<0, 0, 0, 0>>

\* x * z
RotOne(x) == <<-x[4], x[1], x[2] + x[4], x[3]>>

RECURSIVE ZRot(_, _)
\* x * z^k, k >= 0
ZRot(x, k) == IF x = NaN THEN NaN
              ELSE IF k % PhaseSteps = 0 THEN x
              ELSE ZRot(RotOne(x), (k % PhaseSteps) - 1)

ZAdd(x, y) == IF x = NaN \/ y = NaN THEN NaN
              ELSE <<x[1] + y[1], x[2] + y[2], x[3] + y[3], x[4] + y[4]>>

ZDiv(x, n) == IF x = NaN THEN NaN
              ELSE <<x[1] \div n, x[2] \div n, x[3] \div n, x[4] \div n>>

\* a real amplitude as a sample
ZReal(a) == <<a, 0, 0, 0>>

\* |x|^2 = p + q sqrt 3
Norm2(x) == IF x = NaN THEN NaN
            ELSE <<x[1]*x[1] + x[2]*x[2] + x[3]*x[3] + x[4]*x[4]
                     + x[1]*x[3] + x[2]*x[4],
                   x[1]*x[2] + x[2]*x[3] + x[3]*x[4]>>

RECURSIVE RPos(_, _)
\* p + q sqrt 3 > 0; with p and q of opposite signs the number is multiplied
\* by 2 + sqrt 3 > 0, which keeps its sign, until they agree
RPos(p, q) == IF p >= 0 /\ q >= 0 THEN p + q > 0
              ELSE IF p <= 0 /\ q <= 0 THEN FALSE
              ELSE RPos(2*p + 3*q, p + 2*q)

\* u < v for u, v in Z[sqrt 3]; a comparison with nan is false
RLess(u, v) == u # NaN /\ v # NaN /\ RPos(v[1] - u[1], v[2] - u[2])

\* k * u for u in Z[sqrt 3]
RScale(k, u) == IF u = NaN THEN NaN ELSE <<k * u[1], k * u[2]>>

\* a * x for an integer a
ZScale(a, x) == IF x = NaN THEN NaN ELSE <<a * x[1], a * x[2], a * x[3], a * x[4]>>

\* x * y
ZMul(x, y) == IF x = NaN \/ y = NaN THEN NaN
              ELSE ZAdd(ZAdd(ZScale(x[1], y), ZScale(x[2], ZRot(y, 1))),
                        ZAdd(ZScale(x[3], ZRot(y, 2)), ZScale(x[4], ZRot(y, 3))))

\* the array a comprehension describes, as a sequence value
array(f) == f \o <<>>

RECURSIVE ZSum(_, _)
\* f[1] + ... + f[n] for a sequence f of samples
ZSum(f, n) == IF n = 0 THEN Zero ELSE ZAdd(ZSum(f, n - 1), f[n])

\* ------------------------------------------------------ numpy array helpers
\* np.roll(x, s): sample i moves to index (i + s) mod N
np_roll(x, s) == array([j \in 1..Len(x) |-> x[((j - 1 - s) % Len(x)) + 1]])

\* np.fft.fftshift(x): roll by floor(N / 2)
fftshift(x) == IF Len(x) = 0 THEN x ELSE np_roll(x, Len(x) \div 2)

\* np.fft.fft(x): X[k] = sum_n x[n] exp(-2 pi i n k / N)
fft(x) ==
    LET n == Len(x)
        st == PhaseSteps \div n
    IN array([k \in 1..n |->
          ZSum(array([m \in 1..n |->
                        ZRot(x[m], (-(st * (m-1) * (k-1))) % PhaseSteps)]), n)])

\* np.fft.ifft(X): x[n] = (1 / N) sum_k X[k] exp(+2 pi i n k / N)
ifft(X) ==
    LET n == Len(X)
        st == PhaseSteps \div n
    IN array([m \in 1..n |->
          ZDiv(ZSum(array([k \in 1..n |->
                             ZRot(X[k], (st * (m-1) * (k-1)) % PhaseSteps)]), n), n)])

\* ------------------------------------------------------------------ inputs
\* Python's None, and a present value v, as an optional argument
None == <<>>
Some(v) == <<v>>

\* pulse widths (fwhm), central wavelengths (l_0, in units of 100 nm) and
\* time spans (t_span) passed to generate_pulse
Widths == {4, 12}
Wavelengths == {1, 2, 8}
Spans == {12}
\* sample counts whose transform is exact in Z[z]
SampleCounts == {n \in 1..MaxN : PhaseSteps % n = 0}
Domains == {"temporal", "spectral"}
\* material thicknesses passed to propagate_material
Thicknesses == {0, 1, 2}
\* names passed to propagate_material and add_material
Names == {"air", "fs", "bk7", "nosuch"}
\* names and Sellmeier coefficient sets passed to add_material
NewNames == {"bk7"}
Coeffs == {<<2, 1>>}
\* the builds the module runs under.  "/" on two ints floors under Python 2
\* and is true division under Python 3; np.roll handed the float 0.0 raises
\* where it indexes with take (numpy < 1.12) and copies where it slices
Builds == {"py2", "py3_take", "py3_slice"}
Orders == {1, 4}

\* --------------------------------------------------------------- the grids
\* 2 * pi * c, so that w_0 = TwoPiC / l_0 is an integer for each wavelength
TwoPiC == 120
\* 2 * pi, so that 2 * pi / t_span is an integer for each span
TwoPi == 24
\* the catalog's wavelength range l_mat: 200 nm .. 2000 nm
LMatMin == 2
LMatMax == 20
\* the sample count the constructor sets (a power of two), scaled down
DefaultN == 2

\* np.linspace(-t_span / 2, t_span / 2, n)
linspace(t_span, n) ==
    array([k \in 1..n |-> IF n = 1 THEN -(t_span \div 2)
                          ELSE -(t_span \div 2) + ((k - 1) * t_span) \div (n - 1)])

\* np.fft.fftfreq(n, d) * n * d: 0, 1, ..., (n-1)//2, -(n//2), ..., -1
fftfreq(n) ==
    array([k \in 1..n |-> IF k - 1 <= (n - 1) \div 2 THEN k - 1 ELSE k - 1 - n])

\* np.fft.fftshift(2 * np.pi * np.fft.fftfreq(n, d=dt)), with n * dt = t_span
w_grid(t_span, n) ==
    fftshift(array([k \in 1..n |-> (TwoPi \div t_span) * fftfreq(n)[k]]))

\* w_0 = 2 * np.pi * c / l_0
w_0_of(l_0) == TwoPiC \div l_0

\* ------------------------------------------------------------- the catalog
\* interp1d(w_mat, n, bounds_error=False, fill_value=np.nan) over a Sellmeier
\* curve: the curve is kept as the pair <<a, b>> of n(omega) = a + b * omega
interp1d(a, b) == [a |-> a, b |-> b]

\* the interpolator called at omega: nan outside the sampled range of w_mat
index_at(ip, omega) ==
    IF omega < TwoPiC \div LMatMax \/ omega > TwoPiC \div LMatMin THEN NaN
    ELSE Some(ip.a + ip.b * omega)

\* the built-in materials (air is dispersion free here, fs disperses)
builtin_materials == [m \in {"air", "fs"} |->
                        IF m = "air" THEN interp1d(1, 0) ELSE interp1d(1, 1)]

\* ------------------------------------------------------------ the envelope
\* tau ** 2 as a fraction <<numerator, denominator>>
tau2(fwhm, l_0, duration_domain) ==
    IF duration_domain = "temporal"
    THEN <<100 * fwhm * fwhm, 139>>                     \* fwhm / sqrt(2 ln 2)
    ELSE <<19 * l_0 * l_0 * l_0 * l_0, 100 * fwhm * fwhm>> \* 0.441 l_0^2 / (fwhm c)

\* np.exp(-t ** 2 / tau ** 2), rounded to the nearest of 0, 1/2 and 1
gauss(tt, tau) ==
    IF 100 * tt * tt * tau[2] < 29 * tau[1] THEN FieldOne
    ELSE IF 100 * tt * tt * tau[2] < 139 * tau[1] THEN FieldOne \div 2
    ELSE 0

VARIABLES
    N,           \* self.N
    w_0,         \* self.w_0
    t,           \* self.t
    w,           \* self.w
    E_t,         \* self.E_t      reference field, time domain
    E_w,         \* self.E_w      reference field, frequency domain
    E_t_out,     \* self.E_t_out  output field, time domain
    E_w_out,     \* self.E_w_out  output field, frequency domain
    materials,   \* self.materials
    result,      \* the last call: its name, arguments and outcome
    generated,   \* the reference field as the last generate_pulse left it
    hops         \* propagate_material calls since the output field was last set

vars == <<N, w_0, t, w, E_t, E_w, E_t_out, E_w_out, materials,
          result, generated, hops>>

\* the outcome of a call
Outcome(op, arg, kind, val) == [op |-> op, arg |-> arg, kind |-> kind, val |-> val]
Returns(op, arg) == Outcome(op, arg, "None", <<>>)

\* ---------------------------------------------------------- generate_pulse
\* the fields generate_pulse computes for n > 0 samples
pulse(fwhm, l_0, t_span, n, duration_domain) ==
    LET tg == linspace(t_span, n)
        tau == tau2(fwhm, l_0, duration_domain)
        Et == array([k \in 1..n |-> ZReal(gauss(tg[k], tau))])
    IN [t |-> tg, w |-> w_grid(t_span, n), E_t |-> Et, E_w |-> fftshift(fft(Et))]

\* n_arg is None or Some(n) with n >= 1 (n = 0 stops at the division of
\* line 82 and is not among the inputs)
generate_pulse(fwhm, l_0, t_span, n_arg, duration_domain) ==
    LET n == IF n_arg = None THEN N ELSE n_arg[1]
    IN /\ w_0' = w_0_of(l_0)
       /\ N' = n
       /\ \E p \in {pulse(fwhm, l_0, t_span, n, duration_domain)} :
             /\ t' = p.t
             /\ w' = p.w
             /\ E_t' = p.E_t
             /\ E_w' = p.E_w
             /\ E_t_out' = p.E_t
             /\ E_w_out' = p.E_w
             /\ generated' = [E_t |-> p.E_t, E_w |-> p.E_w]
       /\ hops' = 0
       /\ result' = Returns("generate_pulse", <<>>)
       /\ UNCHANGED materials

\* ------------------------------------------------------------ add_material
add_material(name, b_coeff, c_coeff) ==
    /\ materials' = [m \in DOMAIN materials \cup {name} |->
                       IF m = name THEN interp1d(b_coeff, c_coeff) ELSE materials[m]]
    /\ result' = Returns("add_material", <<name>>)
    /\ UNCHANGED <<N, w_0, t, w, E_t, E_w, E_t_out, E_w_out, generated, hops>>

\* ------------------------------------------------------ propagate_material
\* np.exp(-1j * k_w * thickness) at one sample, k_w = omega * n(omega) / c
transfer(ip, omega, thickness) ==
    LET n == index_at(ip, omega)
    IN IF n = NaN THEN NaN
       ELSE ZRot(ZReal(1), (-(omega * n[1] * thickness)) % PhaseSteps)

\* faulty variant: the nan of an out-of-band sample is left in H_w
nan_kept(h) == h

\* H_w[np.isnan(H_w)] = 0
nan_to_zero(h) == IF h = NaN THEN Zero ELSE h

\* H_w of propagate_material
H_w(ip, ws, carrier, thickness) ==
    array([k \in 1..Len(ws) |-> nan_to_zero(transfer(ip, ws[k] + carrier, thickness))])

\* H_w * self.E_w_out.copy()
filtered(H, Ew) == array([k \in 1..Len(Ew) |-> ZMul(H[k], Ew[k])])

\* np.fft.ifft(np.fft.fftshift(self.E_w_out))
to_time(Ew) == ifft(fftshift(Ew))

\* faulty variant: an unknown name is not skipped: the pulse goes through vacuum
propagated_unknown_as_vacuum(mats, ws, carrier, Ew, Et, name, thickness) ==
    IF Len(ws) # Len(Ew)
    THEN [E_w_out |-> Ew, E_t_out |-> Et, kind |-> "raise"]
    ELSE LET ip == IF name \in DOMAIN mats THEN mats[name] ELSE interp1d(1, 0)
             Ew2 == filtered(H_w(ip, ws, carrier, thickness), Ew)
         IN [E_w_out |-> Ew2, E_t_out |-> to_time(Ew2), kind |-> "None"]

\* faulty variant: the filter is applied to the reference spectrum self.E_w, so that
\* successive calls do not accumulate
propagated_from_reference(mats, ws, carrier, Ew, Et, name, thickness) ==
    IF name \notin DOMAIN mats
    THEN [E_w_out |-> Ew, E_t_out |-> Et, kind |-> "None"]
    ELSE IF Len(ws) # Len(E_w)
    THEN [E_w_out |-> Ew, E_t_out |-> Et, kind |-> "raise"]
    ELSE LET Ew2 == filtered(H_w(mats[name], ws, carrier, thickness), E_w)
         IN [E_w_out |-> Ew2, E_t_out |-> to_time(Ew2), kind |-> "None"]

\* the output field propagate_material leaves, as [E_w_out, E_t_out, kind]
propagated(mats, ws, carrier, Ew, Et, name, thickness) ==
    IF name \notin DOMAIN mats
    THEN [E_w_out |-> Ew, E_t_out |-> Et, kind |-> "None"]        \* except KeyError: return
    ELSE IF Len(ws) # Len(Ew)
    THEN [E_w_out |-> Ew, E_t_out |-> Et, kind |-> "raise"]       \* operands do not broadcast
    ELSE LET Ew2 == filtered(H_w(mats[name], ws, carrier, thickness), Ew)
         IN [E_w_out |-> Ew2, E_t_out |-> to_time(Ew2), kind |-> "None"]

propagate_material(name, thickness) ==
    /\ hops < MaxHops
    /\ \E p \in {propagated(materials, w, w_0, E_w_out, E_t_out, name, thickness)} :
       /\ hops' = hops + 1
       /\ E_w_out' = p.E_w_out
       /\ E_t_out' = p.E_t_out
       /\ result' = Outcome("propagate_material", <<name>>, p.kind,
                            IF p.kind = "raise" THEN <<"ValueError">> ELSE <<>>)
       /\ UNCHANGED <<N, w_0, t, w, E_t, E_w, materials, generated>>

\* ------------------------------------------------------- reset_propagation
\* faulty variant: only the spectrum is restored; the time-domain output is kept
restored_spectrum_only(Ew_ref, Et_ref) == [E_w_out |-> Ew_ref, E_t_out |-> E_t_out]

\* the output field reset_propagation leaves: copies of the reference arrays
restored(Ew_ref, Et_ref) == [E_w_out |-> Ew_ref, E_t_out |-> Et_ref]

\* the recorded argument tells how many propagation steps the call undoes
\* and whether they had changed the output field
reset_propagation ==
    /\ E_w_out' = restored(E_w, E_t).E_w_out
    /\ E_t_out' = restored(E_w, E_t).E_t_out
    /\ result' = Returns("reset_propagation", <<hops, E_w_out # E_w \/ E_t_out # E_t>>)
    /\ hops' = 0
    /\ UNCHANGED <<N, w_0, t, w, E_t, E_w, materials, generated>>

\* --------------------------------------------------------------- analysers
\* An array object: the buffer it lives in ("local" for one a statement has
\* just created, else the name of the attribute holding it) and its samples.
\* A statement that builds a new array yields a local object; an in-place
\* statement (/=, -=, item assignment) keeps the buffer of its operand.
Stored(name, x) == [own |-> name, data |-> x]
Local(x) == [own |-> "local", data |-> x]

\* what the attribute `name` holds once the in-place statements that acted
\* on the objects `touched` are done
written(name, touched, old) ==
    IF \E o \in touched : o.own = name
    THEN (CHOOSE o \in touched : o.own = name).data
    ELSE old

\* the outcome of an analyser: what it returns and the objects it changed in place
Result(kind, val, touched) == [kind |-> kind, val |-> val, touched |-> touched]

\* a finite phase value (phase values themselves are not computed)
Fin == <<0>>

\* self.phase_thr squared, as a fraction of FieldOne ** 2: 0.01 ** 2 = 1 / 10000
PhaseThrInv2 == 10000

\* x.max() over |x|^2 values: nan if any sample is nan
r_max(x) ==
    IF \E i \in 1..Len(x) : x[i] = NaN THEN NaN
    ELSE x[CHOOSE i \in 1..Len(x) : \A j \in 1..Len(x) : ~RLess(x[i], x[j])]

\* np.argmax(np.abs(x)), 0-based: the first maximum, or the first nan
argmax_abs(x) ==
    LET a == array([i \in 1..Len(x) |-> Norm2(x[i])])
        first(S) == CHOOSE i \in S : \A j \in S : i <= j
        nans == {i \in 1..Len(x) : a[i] = NaN}
        tops == {i \in 1..Len(x) : \A j \in 1..Len(x) : ~RLess(a[i], a[j])}
    IN IF nans # {} THEN first(nans) - 1 ELSE first(tops) - 1

\* (x.shape[0] / 2 - ind).astype(np.int): floor division under Python 2,
\* true division then truncation towards zero under Python 3
center_shift(n, ind, build) ==
    IF build = "py2" THEN n \div 2 - ind
    ELSE IF n - 2 * ind >= 0 THEN (n - 2 * ind) \div 2
    ELSE -((2 * ind - n) \div 2)

\* np.roll(obj, s): a new array
roll(obj, s) == Local(np_roll(obj.data, s))

\* np.abs(obj) ** 2: a new array
np_abs2(obj) == Local(array([k \in 1..Len(obj.data) |-> Norm2(obj.data[k])]))

\* faulty variant: the division acts on the stored output array self.E_t_out
idiv_max_stored(obj) ==
    LET m == r_max(obj.data)
    IN Stored("E_t_out",
              array([k \in 1..Len(obj.data) |->
                          IF m = NaN \/ m = <<0, 0>> \/ obj.data[k] = NaN THEN NaN
                          ELSE obj.data[k] \o m]))

\* I /= I.max(), in place: each sample becomes <<p, q, pm, qm>> for
\* (p + q sqrt 3) / (pm + qm sqrt 3), or nan (0 / 0, or a nan operand)
idiv_max(obj) ==
    LET m == r_max(obj.data)
    IN [own |-> obj.own,
        data |-> array([k \in 1..Len(obj.data) |->
                          IF m = NaN \/ m = <<0, 0>> \/ obj.data[k] = NaN THEN NaN
                          ELSE obj.data[k] \o m])]

\* get_temporal_intensity / get_spectral_intensity on the stored array E
intensity(name, E, norm, build) ==
    IF Len(E) # 0
    THEN LET ind == argmax_abs(E)
             shift == center_shift(Len(E), ind, build)
             I == np_abs2(roll(Stored(name, E), shift))
             I_n == IF norm THEN idiv_max(I) ELSE I
         IN Result("array", I_n.data, IF norm THEN {I_n} ELSE {})
    ELSE Result("None", <<>>, {})

\* np.sign(I - 0.5) at one normalised sample
sign_half(v) ==
    IF v = NaN THEN NaN
    ELSE IF RLess(RScale(2, <<v[1], v[2]>>), <<v[3], v[4]>>) THEN Some(-1)
    ELSE IF RLess(<<v[3], v[4]>>, RScale(2, <<v[1], v[2]>>)) THEN Some(1)
    ELSE Some(0)

\* np.where(np.diff(np.sign(I - 0.5)))[0], 0-based: a nan difference is non-zero
x_ind(I) ==
    LET s == array([k \in 1..Len(I) |-> sign_half(I[k])])
    IN {i \in 0..(Len(I) - 2) : s[i + 1] = NaN \/ s[i + 2] = NaN \/ s[i + 1] # s[i + 2]}

\* get_pulse_duration, given the intensity call's result and the axis x
pulse_duration(Ires, x) ==
    IF Ires.kind = "None"
    THEN Result("raise", <<"TypeError (None - 0.5)">>, Ires.touched)
    ELSE LET xi == x_ind(Ires.val)
             lo == CHOOSE i \in xi : \A j \in xi : i <= j
             hi == CHOOSE i \in xi : \A j \in xi : i >= j
         IN IF Cardinality(xi) > 1
            THEN Result("value", Some(x[hi + 1] - x[lo + 1]), Ires.touched)
            ELSE Result("value", NaN, Ires.touched)

\* np.abs(x) < self.phase_thr for a field sample x
below_thr(x) == RLess(RScale(PhaseThrInv2, Norm2(x)), <<FieldOne * FieldOne, 0>>)

\* np.polyfit(x[idx], ph[idx], deg) raises on an empty x
polyfit_raises(ph) == \A k \in 1..Len(ph) : ph[k] = NaN

\* get_temporal_phase
temporal_phase(E, linear_comp, build) ==
    IF Len(E) # 0
    THEN LET ind == argmax_abs(E)
             n == Len(E)
             shift == n \div 2 - ind
             E_r == roll(Stored("E_t_out", E), shift)
             \* np.angle, the 2 pi jumps, then ph[low_ind] = np.nan
             ph == Local(array([k \in 1..n |->
                                  IF E_r.data[k] = NaN \/ below_thr(E_r.data[k])
                                  THEN NaN ELSE Fin]))
         IN IF build # "py2" /\ (2 * ind # n \/ build = "py3_take")
            THEN Result("raise", <<"TypeError (np.roll)">>, {})   \* float shift
            ELSE IF linear_comp
            THEN IF polyfit_raises(ph.data)
                 THEN Result("raise", <<"TypeError (np.polyfit)">>, {ph})
                 ELSE Result("array", ph.data, {ph})
            ELSE Result("array", ph.data, {ph})
    ELSE Result("None", <<>>, {})

\* Ew /= abs(Ew).max(), in place: each sample becomes x \o <<pm, qm>> for
\* x / sqrt(pm + qm sqrt 3), or nan
cdiv_max(obj) ==
    LET m == r_max(array([k \in 1..Len(obj.data) |-> Norm2(obj.data[k])]))
    IN [own |-> obj.own,
        data |-> array([k \in 1..Len(obj.data) |->
                          IF m = NaN \/ m = <<0, 0>> \/ obj.data[k] = NaN THEN NaN
                          ELSE obj.data[k] \o m])]

\* np.abs(x) < self.phase_thr for a normalised spectrum sample x
below_thr_norm(x) ==
    RLess(RScale(PhaseThrInv2, Norm2(SubSeq(x, 1, 4))), <<x[5], x[6]>>)

\* get_spectral_phase; self.E_t_out is never None
spectral_phase(E, linear_comp) ==
    IF Len(E) = 0
    THEN Result("raise", <<"ValueError">>, {})                 \* argmax of an empty array
    ELSE LET ind == argmax_abs(E)
             E_r == roll(Stored("E_t_out", E), -ind)
             Ew0 == Local(fftshift(fft(E_r.data)))
             Ew == cdiv_max(Ew0)
             ph0_ind == IF \E k \in 1..Len(E) : Ew.data[k] = NaN THEN 0
                        ELSE argmax_abs(Ew0.data)
             ph == Local(array([k \in 1..Len(E) |->
                                  IF Ew.data[k] = NaN \/ below_thr_norm(Ew.data[k])
                                  THEN NaN ELSE Fin]))
             \* ph_out -= ph_out[ph0_ind], in place
             ph_out == [own |-> ph.own,
                        data |-> array([k \in 1..Len(E) |->
                                          IF ph.data[ph0_ind + 1] = NaN THEN NaN
                                          ELSE ph.data[k]])]
         IN IF linear_comp /\ polyfit_raises(ph.data)
            THEN Result("raise", <<"TypeError (np.polyfit)">>, {Ew, ph})
            ELSE Result("array", ph_out.data, {Ew, ph, ph_out})

\* get_spectral_phase_expansion; self.E_t_out is never None
spectral_phase_expansion(E, ws, orders) ==
    LET r == spectral_phase(E, TRUE)
    IN IF r.kind = "raise" THEN r
       ELSE IF Len(ws) # Len(r.val)
       THEN Result("raise", <<"IndexError">>, r.touched)       \* w[ph_ind]
       ELSE IF polyfit_raises(r.val)
       THEN Result("raise", <<"TypeError (np.polyfit)">>, r.touched)
       ELSE Result("coefficients", Some(orders + 1), r.touched)

\* an analyser call: its outcome is recorded, its in-place statements land
\* in whatever buffers they acted on
analyse(op, arg, r) ==
    /\ result' = Outcome(op, arg, r.kind, r.val)
    /\ E_t_out' = written("E_t_out", r.touched, E_t_out)
    /\ E_w_out' = written("E_w_out", r.touched, E_w_out)
    /\ E_t' = written("E_t", r.touched, E_t)
    /\ E_w' = written("E_w", r.touched, E_w)
    /\ UNCHANGED <<N, w_0, t, w, materials, generated, hops>>

get_temporal_intensity(norm, build) ==
    \E r \in {intensity("E_t_out", E_t_out, norm, build)} :
       analyse("get_temporal_intensity", <<norm>>, r)

get_spectral_intensity(norm, build) ==
    \E r \in {intensity("E_w_out", E_w_out, norm, build)} :
       analyse("get_spectral_intensity", <<norm>>, r)

get_temporal_phase(linear_comp, build) ==
    \E r \in {temporal_phase(E_t_out, linear_comp, build)} :
       analyse("get_temporal_phase", <<linear_comp>>, r)

get_spectral_phase(linear_comp) ==
    \E r \in {spectral_phase(E_t_out, linear_comp)} :
       analyse("get_spectral_phase", <<linear_comp>>, r)

get_spectral_phase_expansion(orders) ==
    \E r \in {spectral_phase_expansion(E_t_out, w, orders)} :
       analyse("get_spectral_phase_expansion", <<orders>>, r)

\* self.get_w()
get_w == array([k \in 1..Len(w) |-> w[k] + w_0])

get_pulse_duration(domain, build) ==
    \E r \in {IF domain = "temporal"
              THEN pulse_duration(intensity("E_t_out", E_t_out, TRUE, build), t)
              ELSE pulse_duration(intensity("E_w_out", E_w_out, TRUE, build), get_w)} :
       analyse("get_pulse_duration", <<domain>>, r)

Analysers == {"get_temporal_intensity", "get_spectral_intensity",
              "get_temporal_phase", "get_spectral_phase",
              "get_spectral_phase_expansion", "get_pulse_duration"}

\* ---------------------------------------------------------- specification
\* the engine as __init__ leaves it: the constructor's generate_pulse call
\* with n = None, then the built-in catalog
Init ==
    /\ \E fwhm \in Widths, l_0 \in Wavelengths, t_span \in Spans :
         \E p \in {pulse(fwhm, l_0, t_span, DefaultN, "temporal")} :
            /\ N = DefaultN
            /\ w_0 = w_0_of(l_0)
            /\ t = p.t
            /\ w = p.w
            /\ E_t = p.E_t
            /\ E_w = p.E_w
            /\ E_t_out = p.E_t
            /\ E_w_out = p.E_w
            /\ generated = [E_t |-> p.E_t, E_w |-> p.E_w]
    /\ materials = builtin_materials
    /\ hops = 0
    /\ result = Returns("__init__", <<>>)

Next ==
    \/ \E fwhm \in Widths, l_0 \in Wavelengths, t_span \in Spans,
          n_arg \in {None} \cup {Some(n) : n \in SampleCounts},
          duration_domain \in Domains :
         generate_pulse(fwhm, l_0, t_span, n_arg, duration_domain)
    \/ \E name \in NewNames, c \in Coeffs : add_material(name, c[1], c[2])
    \/ \E name \in Names, thickness \in Thicknesses : propagate_material(name, thickness)
    \/ reset_propagation
    \/ \E norm \in BOOLEAN, build \in Builds : get_temporal_intensity(norm, build)
    \/ \E norm \in BOOLEAN, build \in Builds : get_spectral_intensity(norm, build)
    \/ \E linear_comp \in BOOLEAN, build \in Builds : get_temporal_phase(linear_comp, build)
    \/ \E linear_comp \in BOOLEAN : get_spectral_phase(linear_comp)
    \/ \E orders \in Orders : get_spectral_phase_expansion(orders)
    \/ \E domain \in Domains, build \in Builds : get_pulse_duration(domain, build)

Spec == Init /\ [][Next]_vars

\* the engine with the field arrays as __init__ first assigns them (empty):
\* no pulse generated
InitNoPulse ==
    /\ \E l_0 \in Wavelengths, t_span \in Spans :
         /\ w_0 = w_0_of(l_0)
         /\ t = linspace(t_span, DefaultN)
         /\ w = w_grid(t_span, DefaultN)
    /\ N = DefaultN
    /\ E_t = <<>>
    /\ E_w = <<>>
    /\ E_t_out = <<>>
    /\ E_w_out = <<>>
    /\ generated = [E_t |-> <<>>, E_w |-> <<>>]
    /\ materials = builtin_materials
    /\ hops = 0
    /\ result = Returns("__init__", <<>>)

SpecNoPulse == InitNoPulse /\ [][Next]_vars
\* ================================================================== claims
OutOfBand(k) == index_at(interp1d(1, 0), w[k] + w_0) = NaN
NoNaN(x) == \A k \in 1..Len(x) : x[k] # NaN

\* C1: after any sequence of propagate_material calls, reset_propagation
\* leaves the output field equal to the reference field as generate_pulse
\* left it, so both intensities are those of the fresh pulse; the reference
\* field is never changed by propagate_material or reset_propagation.
C1_ResetRestoresGenerated ==
    /\ E_t = generated.E_t
    /\ E_w = generated.E_w
    /\ result.op = "reset_propagation" =>
         /\ E_t_out = generated.E_t
         /\ E_w_out = generated.E_w
         /\ \A norm \in BOOLEAN, build \in Builds :
              /\ intensity("E_t_out", E_t_out, norm, build).val
                   = intensity("E_t_out", generated.E_t, norm, build).val
              /\ intensity("E_w_out", E_w_out, norm, build).val
                   = intensity("E_w_out", generated.E_w, norm, build).val

\* a reset that undid two propagation steps which had changed the output
C1_Witness ==
    /\ result.op = "reset_propagation"
    /\ result.arg[1] >= 2
    /\ result.arg[2]
    /\ E_t_out = generated.E_t
    /\ \E k \in 1..Len(E_t) : E_t[k] # Zero

\* C2: propagate_material with a name that is no key of the catalog raises
\* nothing and leaves the output field, the reference field and the catalog
\* as they were.
C2_UnknownMaterialNoOp ==
    [][(result'.op = "propagate_material" /\ result'.arg[1] \notin DOMAIN materials)
         => /\ result'.kind = "None"
            /\ UNCHANGED <<E_t_out, E_w_out, E_t, E_w, materials>>]_vars

\* an unknown name met after a propagation that had changed the output
C2_Witness ==
    /\ result.op = "propagate_material"
    /\ result.arg[1] \notin DOMAIN materials
    /\ hops >= 2
    /\ E_w_out # E_w
    /\ \E k \in 1..Len(E_w_out) : E_w_out[k] # Zero

\* C3: from any state, thickness d1 then thickness d2 of one catalog
\* material leave the same output field, in both domains and zeroed samples
\* included, as the single thickness d1 + d2.  (An analyser call leaves the
\* state it was made in, so the states after the other calls are all the
\* starting states there are.)
C3_ThicknessesAdd ==
    result.op \notin Analysers =>
    \A m \in DOMAIN materials, d1 \in Thicknesses, d2 \in Thicknesses :
       LET a == propagated(materials, w, w_0, E_w_out, E_t_out, m, d1)
           b == propagated(materials, w, w_0, a.E_w_out, a.E_t_out, m, d2)
           c == propagated(materials, w, w_0, E_w_out, E_t_out, m, d1 + d2)
       IN b = c

\* a second propagation step landed on a dispersed spectrum of which one
\* part is zeroed and another is not
C3_Witness ==
    /\ result.op = "propagate_material"
    /\ result.arg[1] \in DOMAIN materials
    /\ hops >= 2
    /\ E_w_out # E_w
    /\ \E j, k \in 1..Len(E_w_out) : E_w_out[j] = Zero /\ E_w_out[k] # Zero

\* C4: after propagate_material with a catalog material every spectrum
\* sample whose absolute frequency w + w_0 lies outside the sampled band is
\* exactly zero, and no sample of the output field is ever nan.
C4_OutOfBandZeroNoNaN ==
    /\ NoNaN(E_w_out)
    /\ NoNaN(E_t_out)
    /\ (result.op = "propagate_material" /\ result.arg[1] \in DOMAIN materials
          /\ result.kind = "None") =>
         \A k \in 1..Len(E_w_out) : OutOfBand(k) => E_w_out[k] = Zero

\* a propagation that zeroed an out-of-band sample which the reference
\* spectrum holds, and kept an in-band one
C4_Witness ==
    /\ result.op = "propagate_material"
    /\ result.arg[1] \in DOMAIN materials
    /\ result.kind = "None"
    /\ \E j, k \in 1..Len(E_w_out) :
         /\ OutOfBand(j) /\ E_w[j] # Zero /\ E_w_out[j] = Zero
         /\ ~OutOfBand(k) /\ E_w_out[k] # Zero

C6_AnalysersReadOnly ==
    [][result'.op \in Analysers
         => UNCHANGED <<E_t_out, E_w_out, E_t, E_w, t, w, w_0>>]_vars

\* normalised intensities were returned for a dispersed, non-zero field
C6_Witness ==
    /\ result.op = "get_temporal_intensity"
    /\ result.arg = <<TRUE>>
    /\ result.kind = "array"
    /\ NoNaN(result.val)
    /\ hops >= 1
    /\ E_t_out # E_t

\* every phase sample is masked: the whole output field is zero
AllZero(x) == Len(x) > 0 /\ \A k \in 1..Len(x) : x[k] = Zero

\* C7: with every phase sample masked, get_temporal_phase(linear_comp=True),
\* get_spectral_phase(linear_comp=True) and get_spectral_phase_expansion
\* return a value and raise nothing.
C7_AllMaskedNoRaise ==
    (/\ AllZero(E_t_out)
     /\ \/ result.op \in {"get_temporal_phase", "get_spectral_phase"}
              /\ result.arg = <<TRUE>>
        \/ result.op = "get_spectral_phase_expansion")
       => result.kind # "raise"

\* C8: for every sample count the reordering before the inverse transform
\* undoes the one applied at generation, so the output spectrum is the
\* zero-centred transform of the output time-domain field.
C8_FourierPair ==
    Len(E_t_out) > 0 => E_w_out = fftshift(fft(E_t_out))

\* the value of an intensity sample, <<p, q>> for p + q sqrt 3
Value(v) == <<v[1], v[2]>>

\* C9: the sequence get_temporal_intensity and get_spectral_intensity return
\* holds its peak sample at the middle index floor(N / 2).
C9_PeakAtMiddle ==
    (/\ result.op \in {"get_temporal_intensity", "get_spectral_intensity"}
     /\ result.kind = "array"
     /\ NoNaN(result.val))
       => \A k \in 1..Len(result.val) :
             ~RLess(Value(result.val[Len(result.val) \div 2 + 1]), Value(result.val[k]))

\* the trace get_pulse_duration measures in the current state
Trace(domain) ==
    IF domain = "temporal" THEN intensity("E_t_out", E_t_out, TRUE, "py2").val
    ELSE intensity("E_w_out", E_w_out, TRUE, "py2").val

\* how often a trace crosses the half-maximum level: the pairs of samples,
\* one strictly below and one strictly above it, with only samples equal to
\* it in between
Crossings(I) ==
    LET s == array([k \in 1..Len(I) |-> sign_half(I[k])])
    IN Cardinality({i \in 1..Len(I) : \E j \in (i + 1)..Len(I) :
                      /\ s[i] \in {Some(1), Some(-1)}
                      /\ s[j] \in {Some(1), Some(-1)}
                      /\ s[j] # s[i]
                      /\ \A k \in (i + 1)..(j - 1) : s[k] = Some(0)})

\* C10: get_pulse_duration returns nan whenever the trace crosses the
\* half-maximum level fewer than two times.
C10_FewCrossingsNaN ==
    (/\ result.op = "get_pulse_duration"
     /\ result.kind = "value"
     /\ NoNaN(Trace(result.arg[1]))
     /\ Crossings(Trace(result.arg[1])) < 2)
       => result.val = NaN
====
